---------------------------- MODULE Spec2Model ----------------------------
(***************************************************************************)
(* BookAI routing core: the keyword classifier, the LLM router with its    *)
(* validation step, the multi-domain combiner and the agent orchestrator   *)
(* (vertex-adapter/src/bookai_adk/core/llm_router.py, orchestrator.py),    *)
(* the chat completion endpoint (api/routes.py) and the /health and /route *)
(* endpoints of adk-orchestrator/main.py.                                  *)
(*                                                                         *)
(* Texts (queries, keywords, responses) are strings; Len, SubSeq and \o    *)
(* act on them character by character.  A confidence is a fixed-point      *)
(* number in thousandths (0.3 is 300, 1.0 is 1000).                        *)
(***************************************************************************)
EXTENDS Integers, Sequences, FiniteSets, TLC

VARIABLES
    pc,         \* position of the operation in progress
    raised,     \* TRUE when the operation raised to its caller
    \* LLMRouter.analyze_query
    enabled,    \* LLMRouter.enabled
    query,      \* the query being analysed or dispatched
    llm,        \* outcome of the external model call of analyze_query
    analysis,   \* the routing decision produced (NoAnalysis before)
    model_calls,    \* number of external model calls made (generate_content)
    \* AgentOrchestrator.process_query and process_query_stream
    requested_model,    \* context["model"]
    streaming,          \* TRUE when entered through process_query_stream
    routed,             \* routing_analysis is not None
    agent_name,         \* the resolved primary agent
    routing_method,     \* "explicit" or "intelligent"
    calls,              \* analyze_query and agent calls made, in order
    in_flight,          \* the agent whose process_query is awaited ("" if none)
    primary_response,   \* route_multi_domain_query's primary_response
    responses,          \* route_multi_domain_query's responses
    k,                  \* index of the secondary agent the loop is at
    response,           \* the response process_query returns
    metrics,            \* the interactions log_agent_interaction recorded
    words,              \* process_query_stream's words
    i,                  \* process_query_stream's loop index
    chunks,             \* the chunks process_query_stream yielded, in order
    \* chat_completions and stream_chat_response (api/routes.py)
    messages,           \* request.messages: the contents of the messages
    status,             \* HTTP status of the response (0 while there is none)
    choices,            \* choices of the ChatCompletionResponse returned
    events,             \* what stream_chat_response yielded, in order
    abandoned,          \* TRUE once the caller abandoned the stream
    \* the services: their start, /health, and /route of adk-orchestrator
    service,            \* "vertex-adapter" or "adk-orchestrator"
    orchestrator,       \* the module-level orchestrator object
    selected_model,     \* RoutingRequest.selected_model
    run,                \* outcome of the ADK runner for the /route request
    routing_response,   \* the RoutingResponse /route returned
    health              \* what a /health request was answered

routerVars == <<enabled, query, llm, analysis, model_calls>>

multiVars == <<primary_response, responses, k>>

streamVars == <<words, i, chunks>>

httpVars == <<messages, status, choices, events, abandoned>>

dispatchVars ==
    <<requested_model, streaming, routed, agent_name, routing_method, calls,
      in_flight, multiVars, response, metrics, streamVars, httpVars>>

serviceVars ==
    <<service, orchestrator, selected_model, run, routing_response, health>>

vars == <<pc, raised, routerVars, dispatchVars, serviceVars>>

(***************************************************************************)
(* Bounds of the model.                                                    *)
(***************************************************************************)
MaxFragments == 2   \* a generated query joins at most this many fragments
MaxSecondary == 2   \* a reply's secondary_agents holds at most this many ids
MaxParts == 2       \* a run of the ADK runner yields at most this many parts

(***************************************************************************)
(* Python string helpers.                                                  *)
(***************************************************************************)
UpperLetters == "ABCDEFGHIJKLMNOPQRSTUVWXYZ"
LowerLetters == "abcdefghijklmnopqrstuvwxyz"

\* the lower-case letter of each upper-case letter
LowerOf ==
    [c \in {SubSeq(UpperLetters, n, n) : n \in 1..26} |->
        LET n == CHOOSE j \in 1..26 : SubSeq(UpperLetters, j, j) = c
        IN  SubSeq(LowerLetters, n, n)]

\* str.lower() on one character
LowerChar(c) == IF c \in DOMAIN LowerOf THEN LowerOf[c] ELSE c

RECURSIVE Lower(_)
\* str.lower(), one half of the string after the other
Lower(s) ==
    IF Len(s) = 0 THEN ""
    ELSE IF Len(s) = 1 THEN LowerChar(s)
    ELSE LET half == Len(s) \div 2
         IN  Lower(SubSeq(s, 1, half)) \o Lower(SubSeq(s, half + 1, Len(s)))

\* the upper-case letter of each lower-case letter
UpperOf ==
    [c \in {SubSeq(LowerLetters, n, n) : n \in 1..26} |->
        LET n == CHOOSE j \in 1..26 : SubSeq(LowerLetters, j, j) = c
        IN  SubSeq(UpperLetters, n, n)]

\* str.upper() on one character
UpperChar(c) == IF c \in DOMAIN UpperOf THEN UpperOf[c] ELSE c

RECURSIVE Upper(_)
\* str.upper(), one half of the string after the other
Upper(s) ==
    IF Len(s) = 0 THEN ""
    ELSE IF Len(s) = 1 THEN UpperChar(s)
    ELSE LET half == Len(s) \div 2
         IN  Upper(SubSeq(s, 1, half)) \o Upper(SubSeq(s, half + 1, Len(s)))

\* str.strip(): s without its leading and trailing whitespace
Strip(s) ==
    LET kept == {n \in 1..Len(s) : SubSeq(s, n, n) \notin {" ", "\n", "\t"}}
    IN  IF kept = {} THEN ""
        ELSE SubSeq(s, CHOOSE n \in kept : \A m \in kept : n <= m,
                       CHOOSE n \in kept : \A m \in kept : n >= m)

\* Python's `kw in s` on strings: kw occurs in s as a substring
Contains(kw, s) ==
    \E n \in 1..(Len(s) - Len(kw) + 1) : SubSeq(s, n, n + Len(kw) - 1) = kw

Min(a, b) == IF a < b THEN a ELSE b
Max(a, b) == IF a > b THEN a ELSE b

(***************************************************************************)
(* Routing decisions.                                                      *)
(***************************************************************************)
RegisteredAgents == {"finance", "code"}

\* the value of `analysis` while no decision has been produced
NoAnalysis ==
    [primary_agent |-> "", confidence |-> 0, is_multi_domain |-> FALSE,
     secondary_agents |-> <<>>, reasoning |-> "", query_type |-> "",
     key_topics |-> <<>>]

(***************************************************************************)
(* The Keyword Classifier: LLMRouter._fallback_analysis.                   *)
(***************************************************************************)
finance_keywords ==
    << "etf", "invest", "investment", "stock", "bond", "portfolio",
       "index fund", "mutual fund", "401k", "ira", "retirement",
       "dividend", "compound interest", "savings", "budget", "financial",
       "money", "market", "economy", "tax", "wealth", "trading", "trade",
       "trader", "bot", "algorithm trading", "forex", "crypto", "price",
       "profit", "loss", "risk", "strategy", "analysis", "buy", "sell",
       "broker", "exchange", "volatility", "return", "yield" >>

code_keywords ==
    << "python", "javascript", "java", "code", "function", "api",
       "algorithm", "programming", "software", "debug", "framework",
       "database", "sql", "rest", "web development", "class", "git",
       "docker", "deploy", "server", "client", "frontend", "backend",
       "bot", "script", "automation", "library", "package", "build",
       "develop", "implementation", "logic", "data", "scraping" >>

\* sum(1 for keyword in keywords if keyword in query_lower)
KeywordScore(keywords, query_lower) ==
    Cardinality({n \in 1..Len(keywords) : Contains(keywords[n], query_lower)})

finance_score(q) == KeywordScore(finance_keywords, Lower(q))
code_score(q) == KeywordScore(code_keywords, Lower(q))

\* the if/elif/else of lines 195-204: primary agent from the two scores
FallbackPrimary(fs, cs) ==
    IF fs > cs THEN "finance"
    ELSE IF cs > fs THEN "code"
    ELSE "finance"

\* FallbackConfidence without the min(0.8, ...) cap
FallbackConfidence_NoCap(fs, cs) ==
    IF fs > cs THEN 400 + fs * 100
    ELSE IF cs > fs THEN 400 + cs * 100
    ELSE 300

\* the confidence of lines 195-204, in thousandths
FallbackConfidence(fs, cs) ==
    IF fs > cs THEN Min(800, 400 + fs * 100)
    ELSE IF cs > fs THEN Min(800, 400 + cs * 100)
    ELSE 300

\* FallbackMultiDomain with `or` in place of `and`
FallbackMultiDomain_Or(fs, cs) == fs > 0 \/ cs > 0

\* lines 206-209
FallbackMultiDomain(fs, cs) == fs > 0 /\ cs > 0

FallbackSecondary(fs, cs) ==
    IF FallbackMultiDomain(fs, cs)
    THEN << IF FallbackPrimary(fs, cs) = "finance" THEN "code" ELSE "finance" >>
    ELSE <<>>

_fallback_analysis(q) ==
    LET fs == finance_score(q)
        cs == code_score(q)
    IN  [primary_agent |-> FallbackPrimary(fs, cs),
         confidence |-> FallbackConfidence(fs, cs),
         is_multi_domain |-> FallbackMultiDomain(fs, cs),
         secondary_agents |-> FallbackSecondary(fs, cs),
         reasoning |-> "Keyword-based routing (fallback mode)",
         query_type |-> "simple",
         key_topics |-> <<>>]

(***************************************************************************)
(* Queries given to the classifier: fragments joined by single spaces.     *)
(***************************************************************************)
Fragments ==
    {"ETF", "investment trader", "Python", "javascript database", "bot",
     "scraping", "hi"}

RECURSIVE QueriesOf(_)
QueriesOf(n) ==
    IF n = 0 THEN {""}
    ELSE LET shorter == QueriesOf(n - 1)
         IN  shorter \cup {IF q = "" THEN f ELSE q \o " " \o f :
                              q \in shorter, f \in Fragments}

Queries == QueriesOf(MaxFragments)

(***************************************************************************)
(* Replies of the external model.  A parsed reply is a JSON value; a JSON  *)
(* object is given by the set of keys it carries and the value under each  *)
(* (a key the reply does not carry holds a fixed filler that is never      *)
(* read).  conf_is_number is FALSE for a confidence that is not a JSON     *)
(* number (such as "high"), sec_is_list is FALSE for a secondary_agents    *)
(* that cannot be iterated (such as 5).                                    *)
(***************************************************************************)
ReplyKeys ==
    {"primary_agent", "confidence", "is_multi_domain", "secondary_agents",
     "reasoning", "query_type", "key_topics"}

\* agent identifiers a reply may name: the registered ones and a made-up one
ReplyAgentNames == RegisteredAgents \cup {"legal"}

RECURSIVE SeqsUpTo(_, _)
\* the sequences over S of length at most n
SeqsUpTo(S, n) ==
    IF n = 0 THEN {<<>>}
    ELSE LET shorter == SeqsUpTo(S, n - 1)
         IN  shorter \cup {Append(s, x) : s \in shorter, x \in S}

\* a parsed reply that is not a JSON object (a list, a number, a string)
NonObject ==
    [is_object |-> FALSE, keys |-> {}, primary_agent |-> "",
     conf_is_number |-> TRUE, confidence |-> 0, is_multi_domain |-> FALSE,
     sec_is_list |-> TRUE, secondary_agents |-> <<>>, reasoning |-> "",
     query_type |-> "", key_topics |-> <<>>]

\* the options of one key: absent, or present with one of the values
PrimaryOpts ==
    {[has |-> FALSE, v |-> ""]}
        \cup {[has |-> TRUE, v |-> a] : a \in ReplyAgentNames}

ConfidenceOpts ==
    {[has |-> FALSE, num |-> TRUE, v |-> 0], [has |-> TRUE, num |-> FALSE, v |-> 0]}
        \cup {[has |-> TRUE, num |-> TRUE, v |-> c] :
                 c \in {-1000, 0, 700, 1000, 5000}}

MultiDomainOpts ==
    {[has |-> FALSE, v |-> FALSE], [has |-> TRUE, v |-> FALSE],
     [has |-> TRUE, v |-> TRUE]}

SecondaryOpts ==
    {[has |-> FALSE, list |-> TRUE, v |-> <<>>],
     [has |-> TRUE, list |-> FALSE, v |-> <<>>]}
        \cup {[has |-> TRUE, list |-> TRUE, v |-> s] :
                 s \in SeqsUpTo(ReplyAgentNames, MaxSecondary)}

ReasoningOpts ==
    {[has |-> FALSE, v |-> ""], [has |-> TRUE, v |-> "model reasoning"]}

QueryTypeOpts ==
    {[has |-> FALSE, v |-> ""]}
        \cup {[has |-> TRUE, v |-> t] :
                 t \in {"simple", "complex", "multi_step", "other"}}

KeyTopicsOpts ==
    {[has |-> FALSE, v |-> <<>>], [has |-> TRUE, v |-> <<"topic">>]}

MkReply(p, c, m, s, r, t, kt) ==
    [is_object |-> TRUE,
     keys |-> {key \in ReplyKeys :
                  \/ key = "primary_agent" /\ p.has
                  \/ key = "confidence" /\ c.has
                  \/ key = "is_multi_domain" /\ m.has
                  \/ key = "secondary_agents" /\ s.has
                  \/ key = "reasoning" /\ r.has
                  \/ key = "query_type" /\ t.has
                  \/ key = "key_topics" /\ kt.has},
     primary_agent |-> p.v,
     conf_is_number |-> c.num, confidence |-> c.v,
     is_multi_domain |-> m.v,
     sec_is_list |-> s.list, secondary_agents |-> s.v,
     reasoning |-> r.v, query_type |-> t.v, key_topics |-> kt.v]

\* the JSON objects given to the validation step
ObjectReplies ==
    {MkReply(p, c, m, s, r, t, kt) :
        p \in PrimaryOpts, c \in ConfidenceOpts, m \in MultiDomainOpts,
        s \in SecondaryOpts, r \in ReasoningOpts, t \in QueryTypeOpts,
        kt \in KeyTopicsOpts}

Replies == ObjectReplies \cup {NonObject}

(***************************************************************************)
(* The validation step: LLMRouter._validate_analysis.  The result says     *)
(* whether the call raised, and holds the validated decision if not.       *)
(***************************************************************************)
ValidationRaises == [raises |-> TRUE, value |-> NoAnalysis]

\* dict.get(key, default)
Get(a, key, default) == IF key \in a.keys THEN a[key] ELSE default

\* ClampConfidence without the upper clamp
ClampConfidence_NoUpper(c) == Max(0, c)

\* max(0.0, min(1.0, c)), line 146
ClampConfidence(c) == Max(0, Min(1000, c))

\* ValidatePrimary that forces the agent but keeps the reply's confidence
ValidatePrimary_KeepConfidence(validated) ==
    IF validated.primary_agent \notin {"finance", "code"}
    THEN [validated EXCEPT !.primary_agent = "finance"]
    ELSE validated

\* ValidatePrimary without the check: the reply's primary_agent is kept
ValidatePrimary_Skip(validated) == validated

\* lines 154-157: an unregistered primary_agent is forced to the default
ValidatePrimary(validated) ==
    IF validated.primary_agent \notin {"finance", "code"}
    THEN [validated EXCEPT !.primary_agent = "finance", !.confidence = 300]
    ELSE validated

\* lines 159-164: the list comprehension over secondary_agents
FilterSecondary(secondary, primary) ==
    LET Keep(agent) == agent \in {"finance", "code"} /\ agent # primary
    IN  SelectSeq(secondary, Keep)

_validate_analysis(a) ==
    IF ~a.is_object
    THEN ValidationRaises     \* a.get: AttributeError
    ELSE IF "confidence" \in a.keys /\ ~a.conf_is_number
    THEN ValidationRaises     \* min(1.0, "high"): TypeError
    ELSE
      LET defaults ==
            [primary_agent |-> Get(a, "primary_agent", "finance"),
             confidence |-> ClampConfidence(Get(a, "confidence", 500)),
             is_multi_domain |-> Get(a, "is_multi_domain", FALSE),
             secondary_agents |-> Get(a, "secondary_agents", <<>>),
             reasoning |-> Get(a, "reasoning", "Default routing"),
             query_type |-> Get(a, "query_type", "simple"),
             key_topics |-> Get(a, "key_topics", <<>>)]
          validated == ValidatePrimary(defaults)
      IN  IF "secondary_agents" \in a.keys /\ ~a.sec_is_list
          THEN ValidationRaises     \* for agent in 5: TypeError
          ELSE [raises |-> FALSE,
                value |-> [validated EXCEPT !.secondary_agents =
                              FilterSecondary(validated.secondary_agents,
                                              validated.primary_agent)]]

(***************************************************************************)
(* Outcomes of the external model call of analyze_query.                   *)
(***************************************************************************)
NoCall == [kind |-> "none", reply |-> NonObject]

\* replies the router is run on: those of ObjectReplies that vary the keys
\* the try/except of analyze_query and the dispatcher depend on
RouterReplies ==
    {r \in ObjectReplies :
        /\ "reasoning" \notin r.keys
        /\ "key_topics" \notin r.keys
        /\ r.confidence \in {0, 5000}
        /\ r.query_type \in {"", "complex", "other"}
        /\ Len(r.secondary_agents) <= 1}
        \cup {NonObject}

\* generate_content raises; response.text is not JSON; response.text is JSON
ModelOutcomes ==
    {[kind |-> "raises", reply |-> NonObject],
     [kind |-> "not_json", reply |-> NonObject]}
        \cup {[kind |-> "json", reply |-> r] : r \in RouterReplies}

(***************************************************************************)
(* LLMRouter.analyze_query, lines 73-139: the try block from the return of *)
(* the external call on, with its two except clauses.  The result says     *)
(* whether analyze_query raised, and holds the decision returned if not.   *)
(***************************************************************************)
\* AnalyzeResult whose last except clause is missing: an error of the
\* validation step propagates to the caller
AnalyzeResult_Uncaught(q, outcome) ==
    IF outcome.kind = "raises"
    THEN [raises |-> FALSE, value |-> _fallback_analysis(q)]
    ELSE IF outcome.kind = "not_json"
    THEN [raises |-> FALSE, value |-> _fallback_analysis(q)]
    ELSE _validate_analysis(outcome.reply)

AnalyzeResult(q, outcome) ==
    IF outcome.kind = "raises"
    THEN [raises |-> FALSE, value |-> _fallback_analysis(q)]  \* except Exception
    ELSE IF outcome.kind = "not_json"
    THEN [raises |-> FALSE, value |-> _fallback_analysis(q)]  \* except JSONDecodeError
    ELSE LET result == _validate_analysis(outcome.reply)
         IN  IF result.raises
             THEN [raises |-> FALSE, value |-> _fallback_analysis(q)]  \* except Exception
             ELSE result

\* the queries the router is run on: the empty query and the examples of
\* the /routing/test endpoint
RouterQueries ==
    {"",
     "What is an ETF and how do I invest in one?",
     "How do I build a REST API with FastAPI?",
     "Create a Python script to analyze my stock portfolio",
     "Explain compound interest and show me the calculation",
     "Debug this JavaScript function that's not working",
     "What's the best investment strategy for retirement?",
     "How do I deploy a web application to the cloud?"}

(***************************************************************************)
(* The Multi-Domain Combiner: LLMRouter._combine_multi_domain_responses.   *)
(* A secondary response is a record [agent, response].                     *)
(***************************************************************************)
RECURSIVE Join(_, _)
\* sep.join(strs)
Join(strs, sep) ==
    IF strs = <<>> THEN ""
    ELSE IF Len(strs) = 1 THEN strs[1]
    ELSE strs[1] \o sep \o Join(Tail(strs), sep)

\* line 286
PrimaryTitle(primary_agent) ==
    IF primary_agent = "code" THEN "Technical Implementation"
    ELSE "Financial Analysis"

\* line 292
SecondaryTitle(agent) ==
    IF agent = "finance" THEN "Financial Considerations"
    ELSE "Technical Considerations"

RECURSIVE SecondarySections_Reversed(_)
\* SecondarySections that puts the section of a later response first
SecondarySections_Reversed(secondary_responses) ==
    IF secondary_responses = <<>> THEN ""
    ELSE SecondarySections_Reversed(Tail(secondary_responses))
            \o "## " \o SecondaryTitle(secondary_responses[1].agent)
            \o " (Additional Context)\n\n"
            \o secondary_responses[1].response \o "\n\n"

RECURSIVE SecondarySections(_)
\* lines 291-294: the sections of the secondary responses, in their order
SecondarySections(secondary_responses) ==
    IF secondary_responses = <<>> THEN ""
    ELSE "## " \o SecondaryTitle(secondary_responses[1].agent)
            \o " (Additional Context)\n\n"
            \o secondary_responses[1].response \o "\n\n"
            \o SecondarySections(Tail(secondary_responses))

\* lines 282-301: the combined document
CombinedDocument(q, primary_agent, primary_resp, secondary_responses) ==
    "**Multi-Domain Analysis for: " \o q \o "**\n\n"
        \o "## " \o PrimaryTitle(primary_agent) \o " (Primary Focus)\n\n"
        \o primary_resp \o "\n\n"
        \o SecondarySections(secondary_responses)
        \o "---\n"
        \o "*Note: This query spans multiple domains (" \o primary_agent
        \o " + "
        \o Join([n \in 1..Len(secondary_responses) |->
                    secondary_responses[n].agent], ", ")
        \o "). "
        \o "The above analysis covers both technical and financial aspects to provide a comprehensive answer.*"

\* the combiner without its early return (lines 279-280)
_combine_multi_domain_responses_AlwaysWraps(q, primary_agent, primary_resp, secondary_responses, decision) ==
    CombinedDocument(q, primary_agent, primary_resp, secondary_responses)

_combine_multi_domain_responses(q, primary_agent, primary_resp, secondary_responses, decision) ==
    IF secondary_responses = <<>>
    THEN primary_resp
    ELSE CombinedDocument(q, primary_agent, primary_resp, secondary_responses)

(***************************************************************************)
(* The agents.  What an agent answers is canned text chosen from the       *)
(* query; the orchestrator handles any text, so an answer is one of a few  *)
(* texts, and a call may also raise.                                       *)
(***************************************************************************)
AgentResponses(agent) ==
    IF agent = "finance"
    THEN {"Buy index funds", "Diversify.\n\nKeep costs  low, then hold on"}
    ELSE {"", "def f():\n    return 1"}

\* str.split() separates at these characters
IsSpace(c) == c \in {" ", "\n", "\t"}

\* the positions at which a word of s starts
WordStarts(s) ==
    {n \in 1..Len(s) :
        /\ ~IsSpace(SubSeq(s, n, n))
        /\ n = 1 \/ IsSpace(SubSeq(s, n - 1, n - 1))}

\* the position at which the word of s starting at n ends
WordEnd(s, n) ==
    CHOOSE m \in n..Len(s) :
        /\ m = Len(s) \/ IsSpace(SubSeq(s, m + 1, m + 1))
        /\ \A j \in n..m : ~IsSpace(SubSeq(s, j, j))

\* str.split(): the maximal runs of characters that are not spaces, in order
Split(s) ==
    LET starts == WordStarts(s)
    IN  [j \in 1..Cardinality(starts) |->
            LET n == CHOOSE st \in starts :
                        Cardinality({m \in starts : m < st}) = j - 1
            IN  SubSeq(s, n, WordEnd(s, n))]

\* orchestrator.py line 152
chunk_size == 5

\* routes.py lines 121-133: a chunk of the stream that carries content
ContentChunk(text) ==
    [kind |-> "chunk", has_content |-> TRUE, content |-> text,
     finish_reason |-> "none"]

\* routes.py lines 136-148: the final chunk, with an empty delta
FinalChunk ==
    [kind |-> "chunk", has_content |-> FALSE, content |-> "",
     finish_reason |-> "stop"]

\* routes.py lines 153-164: the chunk that reports an exception
ErrorChunk ==
    [kind |-> "chunk", has_content |-> TRUE, content |-> "Error: ",
     finish_reason |-> "error"]

\* routes.py lines 149 and 165: "data: [DONE]"
DoneSentinel ==
    [kind |-> "[DONE]", has_content |-> FALSE, content |-> "",
     finish_reason |-> "none"]

\* routes.py lines 86-92: the choice of a completion
Choice(text) ==
    [index |-> 0, role |-> "assistant", content |-> text,
     finish_reason |-> "stop"]

\* the requests the orchestrator is run on
DispatchQueries == {"", "Build a Python trading bot"}

RequestedModels ==
    {"finance-agent", "code-agent", "bookai-general", "finance", "code",
     "legal-agent", ""}

\* request.messages: none, or messages of which the last holds the query
RequestMessages ==
    {<<>>} \cup {<<q>> : q \in DispatchQueries}
        \cup {<<"Hello", q>> : q \in DispatchQueries}

\* the replies of the external model the orchestrator is run on: those of
\* ObjectReplies that vary the keys process_query reads
DispatchReplies ==
    {r \in ObjectReplies :
        /\ r.keys \subseteq
              {"primary_agent", "is_multi_domain", "secondary_agents"}
        /\ r.primary_agent # "legal"
        /\ r.sec_is_list}

DispatchOutcomes ==
    {[kind |-> "raises", reply |-> NonObject],
     [kind |-> "not_json", reply |-> NonObject]}
        \cup {[kind |-> "json", reply |-> r] : r \in DispatchReplies}

\* no outcome of the ADK runner, no RoutingResponse
NoRun == [kind |-> "none", parts |-> <<>>]
NoRoutingResponse ==
    [should_route |-> FALSE, target_model |-> "", reasoning |-> "",
     confidence |-> 0]

\* the services' variables in a running vertex-adapter with no request to
\* /health or /route
ServiceIdle ==
    /\ service = "vertex-adapter"
    /\ orchestrator = "AgentOrchestrator"
    /\ selected_model = ""
    /\ run = NoRun
    /\ routing_response = NoRoutingResponse
    /\ health = [status |-> 0, body |-> ""]

\* the orchestrator's variables while no dispatch is modelled
DispatchIdle ==
    /\ requested_model = ""
    /\ streaming = FALSE
    /\ routed = FALSE
    /\ agent_name = ""
    /\ routing_method = ""
    /\ calls = <<>>
    /\ in_flight = ""
    /\ primary_response = ""
    /\ responses = <<>>
    /\ k = 0
    /\ response = ""
    /\ metrics = <<>>
    /\ words = <<>>
    /\ i = 0
    /\ chunks = <<>>
    /\ messages = <<>>
    /\ status = 0
    /\ choices = <<>>
    /\ events = <<>>
    /\ abandoned = FALSE

(***************************************************************************)
(* Specification of the Keyword Classifier as a pure function.             *)
(***************************************************************************)
KeywordInit ==
    /\ pc = "classify"
    /\ enabled = FALSE
    /\ query \in Queries
    /\ llm = NoCall
    /\ analysis = NoAnalysis
    /\ raised = FALSE
    /\ model_calls = 0
    /\ DispatchIdle
    /\ ServiceIdle

KeywordClassify ==
    /\ pc = "classify"
    /\ pc' = "classified"
    /\ analysis' = _fallback_analysis(query)
    /\ UNCHANGED <<enabled, query, llm, raised, model_calls, dispatchVars,
                   serviceVars>>

KeywordNext == KeywordClassify

SpecKeyword == KeywordInit /\ [][KeywordNext]_vars

(***************************************************************************)
(* Specification of the validation step as a pure function of the reply.   *)
(***************************************************************************)
ValidateInit ==
    /\ pc = "validate"
    /\ enabled = TRUE
    /\ query = ""
    /\ llm \in {[kind |-> "json", reply |-> r] : r \in Replies}
    /\ analysis = NoAnalysis
    /\ raised = FALSE
    /\ model_calls = 0
    /\ DispatchIdle
    /\ ServiceIdle

Validate ==
    /\ pc = "validate"
    /\ pc' = "validated"
    /\ LET result == _validate_analysis(llm.reply)
       IN  /\ raised' = result.raises
           /\ analysis' = result.value
    /\ UNCHANGED <<enabled, query, llm, model_calls, dispatchVars,
                   serviceVars>>

ValidateNext == Validate

SpecValidate == ValidateInit /\ [][ValidateNext]_vars

(***************************************************************************)
(* Specification of LLMRouter.analyze_query.                               *)
(***************************************************************************)
RouterInit ==
    /\ pc = "analyze"
    /\ enabled \in BOOLEAN
    /\ query \in RouterQueries
    /\ llm = NoCall
    /\ analysis = NoAnalysis
    /\ raised = FALSE
    /\ model_calls = 0
    /\ DispatchIdle
    /\ ServiceIdle

\* lines 70-71: the router is disabled
AnalyzeDisabled ==
    /\ pc = "analyze"
    /\ ~enabled
    /\ pc' = "returned"
    /\ analysis' = _fallback_analysis(query)
    /\ UNCHANGED <<enabled, query, llm, raised, model_calls, dispatchVars,
                   serviceVars>>

\* lines 73-119: the prompt is built and the external model is called
CallModel ==
    /\ pc = "analyze"
    /\ enabled
    /\ pc' = "awaiting"
    /\ model_calls' = model_calls + 1
    /\ UNCHANGED <<enabled, query, llm, analysis, raised, dispatchVars,
                   serviceVars>>

\* ModelReturnsWith that calls the model a second time after a call that
\* raised or a reply that is not JSON
ModelReturnsWith_Retries(outcomes) ==
    /\ pc = "awaiting"
    /\ \E outcome \in outcomes :
          /\ llm' = outcome
          /\ IF outcome.kind # "json" /\ model_calls < 2
             THEN /\ pc' = "analyze"
                  /\ UNCHANGED <<raised, analysis,
                   serviceVars>>
             ELSE /\ pc' = "returned"
                  /\ LET result == AnalyzeResult(query, outcome)
                     IN  /\ raised' = result.raises
                         /\ analysis' = result.value
    /\ UNCHANGED <<enabled, query, model_calls, dispatchVars,
                   serviceVars>>

\* lines 112-139: the call ends, by raising or with a reply
ModelReturnsWith(outcomes) ==
    /\ pc = "awaiting"
    /\ \E outcome \in outcomes :
          /\ llm' = outcome
          /\ LET result == AnalyzeResult(query, outcome)
             IN  /\ raised' = result.raises
                 /\ analysis' = result.value
    /\ pc' = "returned"
    /\ UNCHANGED <<enabled, query, model_calls, dispatchVars,
                   serviceVars>>

ModelReturns == ModelReturnsWith(ModelOutcomes)

RouterNext == AnalyzeDisabled \/ CallModel \/ ModelReturns

SpecRouter == RouterInit /\ [][RouterNext]_vars

(***************************************************************************)
(* Specification of the two services from their start: the construction of *)
(* the module-level orchestrator (adk-orchestrator/main.py lines 68-85,    *)
(* api/routes.py line 26), then one request to /health or to /route.       *)
(***************************************************************************)
Services == {"vertex-adapter", "adk-orchestrator"}

SelectedModels == {"gpt-4", "AuthorGen", ""}

\* texts of the parts of the events a run yields
PartTexts ==
    {"ROUTE_TO_AUTHORGEN", "KEEP_CURRENT", "route_to_", "AuthorGen\n",
     " Route_To_AuthorGen ", ""}

\* a run yields parts and ends, or yields parts and raises (create_session
\* or run_async raising, a part whose text is None)
RunOutcomes ==
    [kind : {"events", "raises"}, parts : SeqsUpTo(PartTexts, MaxParts)]

NoHealth == [status |-> 0, body |-> ""]

\* main.py lines 174-180 and 106-111: the fallback decision
FallbackRouting(selected, why) ==
    [should_route |-> FALSE, target_model |-> selected, reasoning |-> why,
     confidence |-> 0]

\* RouteDecision that looks for the marker without upper-casing the reply
RouteDecision_CaseSensitive(selected, outcome) ==
    IF outcome.kind = "raises"
    THEN FallbackRouting(selected, "Error occurred, using fallback")
    ELSE LET decision_text == Strip(Join(outcome.parts, ""))
         IN  IF Contains("ROUTE_TO_AUTHORGEN", decision_text)
             THEN [should_route |-> TRUE, target_model |-> "AuthorGen",
                   reasoning |-> "Author creation request detected",
                   confidence |-> 900]
             ELSE [should_route |-> FALSE, target_model |-> selected,
                   reasoning |-> "Not an author creation request",
                   confidence |-> 800]

\* main.py lines 113-180: the try block of route_request and its except
RouteDecision(selected, outcome) ==
    IF outcome.kind = "raises"
    THEN FallbackRouting(selected, "Error occurred, using fallback")
    ELSE LET decision_text == Upper(Strip(Join(outcome.parts, "")))
         IN  IF Contains("ROUTE_TO_AUTHORGEN", decision_text)
             THEN [should_route |-> TRUE, target_model |-> "AuthorGen",
                   reasoning |-> "Author creation request detected",
                   confidence |-> 900]
             ELSE [should_route |-> FALSE, target_model |-> selected,
                   reasoning |-> "Not an author creation request",
                   confidence |-> 800]

ServiceInit ==
    /\ pc = "startup"
    /\ raised = FALSE
    /\ enabled \in BOOLEAN
    /\ query \in DispatchQueries
    /\ llm = NoCall
    /\ analysis = NoAnalysis
    /\ model_calls = 0
    /\ DispatchIdle
    /\ service \in Services
    /\ orchestrator = "pending"
    /\ selected_model \in SelectedModels
    /\ run = NoRun
    /\ routing_response = NoRoutingResponse
    /\ health = NoHealth

\* main.py lines 68-85: the Runner is constructed, or orchestrator is None
ConstructRunner ==
    /\ pc = "startup"
    /\ service = "adk-orchestrator"
    /\ \E ok \in BOOLEAN : orchestrator' = IF ok THEN "Runner" ELSE "None"
    /\ pc' = "serving"
    /\ UNCHANGED <<raised, routerVars, dispatchVars, service, selected_model,
                   run, routing_response, health>>

\* api/routes.py line 26: AgentOrchestrator() at the import of the module;
\* if it raises the import fails and the application is never created
ConstructDispatcher ==
    /\ pc = "startup"
    /\ service = "vertex-adapter"
    /\ \E ok \in BOOLEAN :
          /\ orchestrator' = IF ok THEN "AgentOrchestrator" ELSE "None"
          /\ pc' = IF ok THEN "serving" ELSE "exited"
    /\ UNCHANGED <<raised, routerVars, dispatchVars, service, selected_model,
                   run, routing_response, health>>

\* health_check that does not look at orchestrator
health_check_Unconditional ==
    /\ pc = "serving"
    /\ service = "adk-orchestrator"
    /\ health' = [status |-> 200, body |-> "healthy"]
    /\ pc' = "health_answered"
    /\ UNCHANGED <<raised, routerVars, dispatchVars, service, orchestrator,
                   selected_model, run, routing_response>>

\* main.py lines 87-97
health_check ==
    /\ pc = "serving"
    /\ service = "adk-orchestrator"
    /\ health' = IF orchestrator = "None"
                 THEN [status |-> 503, body |-> "Orchestrator not available"]
                 ELSE [status |-> 200, body |-> "healthy"]
    /\ pc' = "health_answered"
    /\ UNCHANGED <<raised, routerVars, dispatchVars, service, orchestrator,
                   selected_model, run, routing_response>>

\* api/routes.py lines 29-32
adapter_health_check ==
    /\ pc = "serving"
    /\ service = "vertex-adapter"
    /\ health' = [status |-> 200, body |-> "healthy"]
    /\ pc' = "health_answered"
    /\ UNCHANGED <<raised, routerVars, dispatchVars, service, orchestrator,
                   selected_model, run, routing_response>>

\* a /health request to the vertex-adapter whose application was never
\* created: nothing listens, the request gets no HTTP response
HealthRefused ==
    /\ pc = "exited"
    /\ health' = [status |-> 0, body |-> "connection refused"]
    /\ pc' = "health_refused"
    /\ UNCHANGED <<raised, routerVars, dispatchVars, service, orchestrator,
                   selected_model, run, routing_response>>

\* main.py lines 104-111: /route while orchestrator is None
RouteUnavailable ==
    /\ pc = "serving"
    /\ service = "adk-orchestrator"
    /\ orchestrator = "None"
    /\ routing_response' =
          FallbackRouting(selected_model,
                          "Orchestrator unavailable, using fallback")
    /\ pc' = "route_answered"
    /\ UNCHANGED <<raised, routerVars, dispatchVars, service, orchestrator,
                   selected_model, run, health>>

\* main.py lines 113-180: /route runs the ADK runner; with the external
\* model out of reach the run raises
RouteRun ==
    /\ pc = "serving"
    /\ service = "adk-orchestrator"
    /\ orchestrator = "Runner"
    /\ \E outcome \in RunOutcomes :
          /\ ~enabled => outcome.kind = "raises"
          /\ run' = outcome
          /\ routing_response' = RouteDecision(selected_model, outcome)
    /\ pc' = "route_answered"
    /\ UNCHANGED <<raised, routerVars, dispatchVars, service, orchestrator,
                   selected_model, health>>

ServiceNext ==
    \/ ConstructRunner
    \/ ConstructDispatcher
    \/ health_check
    \/ adapter_health_check
    \/ HealthRefused
    \/ RouteUnavailable
    \/ RouteRun

SpecService == ServiceInit /\ [][ServiceNext]_vars

(***************************************************************************)
(* Specification of the Multi-Domain Combiner as a pure function of the    *)
(* primary agent id, the primary response and the secondary responses.     *)
(***************************************************************************)
\* agent ids the combiner is given: its parameters are strings
CombinerAgents == RegisteredAgents \cup {"legal"}

CombinerTexts == {"", "Buy index funds"}

CombinerResponses ==
    SeqsUpTo([agent : CombinerAgents, response : {"A", "B\nb"}], MaxSecondary)

CombineInit ==
    /\ pc = "combine"
    /\ ServiceIdle
    /\ raised = FALSE
    /\ enabled = FALSE
    /\ query \in DispatchQueries
    /\ llm = NoCall
    /\ analysis = NoAnalysis
    /\ model_calls = 0
    /\ requested_model = ""
    /\ streaming = FALSE
    /\ routed = FALSE
    /\ agent_name \in CombinerAgents
    /\ routing_method = ""
    /\ calls = <<>>
    /\ in_flight = ""
    /\ primary_response \in CombinerTexts
    /\ responses \in CombinerResponses
    /\ k = 0
    /\ response = ""
    /\ metrics = <<>>
    /\ words = <<>>
    /\ i = 0
    /\ chunks = <<>>
    /\ messages = <<>>
    /\ status = 0
    /\ choices = <<>>
    /\ events = <<>>
    /\ abandoned = FALSE

\* llm_router.py lines 268-301
CombineResponses ==
    /\ pc = "combine"
    /\ response' = _combine_multi_domain_responses(
                       query, agent_name, primary_response, responses, analysis)
    /\ pc' = "combined"
    /\ UNCHANGED <<raised, routerVars, requested_model, streaming, routed,
                   agent_name, routing_method, calls, in_flight, multiVars,
                   metrics, streamVars, httpVars,
                   serviceVars>>

CombineNext == CombineResponses

SpecCombine == CombineInit /\ [][CombineNext]_vars

(***************************************************************************)
(* Specification of one chat completion request: chat_completions and     *)
(* stream_chat_response of api/routes.py, which dispatch through           *)
(* AgentOrchestrator.process_query and process_query_stream.  The          *)
(* orchestrator's llm_router is the router of llm_router.py.               *)
(***************************************************************************)
Init ==
    /\ pc = "chat_completions"
    /\ ServiceIdle
    /\ raised = FALSE
    /\ enabled \in BOOLEAN
    /\ query = ""
    /\ messages \in RequestMessages
    /\ status = 0
    /\ choices = <<>>
    /\ events = <<>>
    /\ abandoned = FALSE
    /\ llm = NoCall
    /\ analysis = NoAnalysis
    /\ model_calls = 0
    /\ requested_model \in RequestedModels
    /\ streaming \in BOOLEAN
    /\ routed = FALSE
    /\ agent_name = ""
    /\ routing_method = ""
    /\ calls = <<>>
    /\ in_flight = ""
    /\ primary_response = ""
    /\ responses = <<>>
    /\ k = 0
    /\ response = ""
    /\ metrics = <<>>
    /\ words = <<>>
    /\ i = 0
    /\ chunks = <<>>

\* routes.py lines 47-48 and 100-102: the messages are empty; the
\* HTTPException of status 400 is raised inside the try block, whose
\* "except Exception" clause catches it and raises one of status 500
RejectEmpty ==
    /\ pc = "chat_completions"
    /\ messages = <<>>
    /\ status' = 500
    /\ pc' = "responded"
    /\ UNCHANGED <<raised, routerVars, requested_model, streaming, routed,
                   agent_name, routing_method, calls, in_flight, multiVars,
                   response, metrics, streamVars, messages, choices, events,
                   abandoned,
                   serviceVars>>

\* routes.py lines 50-80: the last message is the query; a streamed request
\* is answered by a StreamingResponse over stream_chat_response, another
\* one awaits process_query
AcceptRequest ==
    /\ pc = "chat_completions"
    /\ messages # <<>>
    /\ query' = messages[Len(messages)]
    /\ status' = IF streaming THEN 200 ELSE status
    /\ pc' = "process_query"
    /\ UNCHANGED <<raised, enabled, llm, analysis, model_calls,
                   requested_model, streaming, routed, agent_name,
                   routing_method, calls, in_flight, multiVars, response,
                   metrics, streamVars, messages, choices, events, abandoned,
                   serviceVars>>

\* ResolveExplicit that notes the agent and still consults the router
ResolveExplicit_StillRoutes ==
    /\ pc = "process_query"
    /\ requested_model \in {"finance-agent", "code-agent"}
    /\ agent_name' = IF requested_model = "finance-agent" THEN "finance"
                     ELSE "code"
    /\ routing_method' = "explicit"
    /\ routed' = FALSE
    /\ calls' = Append(calls, "analyze_query")
    /\ pc' = "analyze"
    /\ UNCHANGED <<raised, routerVars, requested_model, streaming,
                   in_flight, multiVars, response, metrics, streamVars,
                   httpVars,
                   serviceVars>>

\* ResolveExplicit that also takes the bare names of the agents
ResolveExplicit_BareNames ==
    /\ pc = "process_query"
    /\ requested_model \in {"finance-agent", "code-agent", "finance", "code"}
    /\ agent_name' = IF requested_model \in {"finance-agent", "finance"}
                     THEN "finance"
                     ELSE "code"
    /\ routing_method' = "explicit"
    /\ routed' = FALSE
    /\ pc' = "route_decided"
    /\ UNCHANGED <<raised, routerVars, requested_model, streaming, calls,
                   in_flight, multiVars, response, metrics, streamVars,
                   httpVars,
                   serviceVars>>

\* lines 83-91: the requested model names an agent
ResolveExplicit ==
    /\ pc = "process_query"
    /\ requested_model \in {"finance-agent", "code-agent"}
    /\ agent_name' = IF requested_model = "finance-agent" THEN "finance"
                     ELSE "code"
    /\ routing_method' = "explicit"
    /\ routed' = FALSE
    /\ pc' = "route_decided"
    /\ UNCHANGED <<raised, routerVars, requested_model, streaming, calls,
                   in_flight, multiVars, response, metrics, streamVars,
                   httpVars,
                   serviceVars>>

\* lines 92-94: any other model; route_query_intelligent calls analyze_query
ResolveIntelligent ==
    /\ pc = "process_query"
    /\ requested_model \notin {"finance-agent", "code-agent"}
    /\ calls' = Append(calls, "analyze_query")
    /\ pc' = "analyze"
    /\ UNCHANGED <<raised, routerVars, requested_model, streaming, routed,
                   agent_name, routing_method, in_flight, multiVars, response,
                   metrics, streamVars,
                   httpVars,
                   serviceVars>>

\* lines 94-96: analyze_query has returned its decision
ReceiveAnalysis ==
    /\ pc = "returned"
    /\ routed' = TRUE
    /\ agent_name' = analysis.primary_agent
    /\ routing_method' = "intelligent"
    /\ llm' = NoCall
    /\ pc' = "route_decided"
    /\ UNCHANGED <<raised, enabled, query, analysis, model_calls,
                   requested_model, streaming, calls, in_flight, multiVars,
                   response, metrics, streamVars,
                   httpVars,
                   serviceVars>>

\* MultiDomainDetected that goes by the secondary agents of the decision
MultiDomainDetected_BySecondary == routed /\ analysis.secondary_agents # <<>>

\* line 99
MultiDomainDetected == routed /\ analysis.is_multi_domain

\* CallPrimary that starts the calls of the secondary agents with it
CallPrimary_WithSecondaries ==
    /\ pc = "route_decided"
    /\ MultiDomainDetected
    /\ responses' = <<>>
    /\ in_flight' = analysis.primary_agent
    /\ calls' = Append(calls, analysis.primary_agent)
                    \o analysis.secondary_agents
    /\ pc' = "await_primary"
    /\ UNCHANGED <<raised, routerVars, requested_model, streaming, routed,
                   agent_name, routing_method, primary_response, k, response,
                   metrics, streamVars, httpVars,
                   serviceVars>>

\* lines 99-112 and route_multi_domain_query lines 230-240: the primary
\* agent of a multi-domain decision is called
CallPrimary ==
    /\ pc = "route_decided"
    /\ MultiDomainDetected
    /\ responses' = <<>>
    /\ in_flight' = analysis.primary_agent
    /\ calls' = Append(calls, analysis.primary_agent)
    /\ pc' = "await_primary"
    /\ UNCHANGED <<raised, routerVars, requested_model, streaming, routed,
                   agent_name, routing_method, primary_response, k, response,
                   metrics, streamVars,
                   httpVars,
                   serviceVars>>

\* line 240: the primary agent answers
PrimaryReturns ==
    /\ pc = "await_primary"
    /\ \E text \in AgentResponses(in_flight) : primary_response' = text
    /\ in_flight' = ""
    /\ k' = 1
    /\ pc' = "secondaries"
    /\ UNCHANGED <<raised, routerVars, requested_model, streaming, routed,
                   agent_name, routing_method, calls, responses, response,
                   metrics, streamVars,
                   httpVars,
                   serviceVars>>

\* NextSecondary that passes every secondary agent by
NextSecondary_Skips ==
    /\ pc = "secondaries"
    /\ k <= Len(analysis.secondary_agents)
    /\ k' = k + 1
    /\ UNCHANGED <<pc, raised, routerVars, requested_model, streaming, routed,
                   agent_name, routing_method, calls, in_flight,
                   primary_response, responses, response, metrics, streamVars,
                   httpVars,
                   serviceVars>>

\* lines 243-246: the loop reaches the next secondary agent, and calls it if
\* it is a registered agent
NextSecondary ==
    /\ pc = "secondaries"
    /\ k <= Len(analysis.secondary_agents)
    /\ IF analysis.secondary_agents[k] \in RegisteredAgents
       THEN /\ in_flight' = analysis.secondary_agents[k]
            /\ calls' = Append(calls, analysis.secondary_agents[k])
            /\ pc' = "await_secondary"
            /\ k' = k
       ELSE /\ k' = k + 1
            /\ UNCHANGED <<in_flight, calls, pc,
                   serviceVars>>
    /\ UNCHANGED <<raised, routerVars, requested_model, streaming, routed,
                   agent_name, routing_method, primary_response, responses,
                   response, metrics, streamVars,
                   httpVars,
                   serviceVars>>

\* lines 246-250: the secondary agent answers
SecondaryReturns ==
    /\ pc = "await_secondary"
    /\ \E text \in AgentResponses(in_flight) :
          responses' = Append(responses,
                              [agent |-> in_flight, response |-> text])
    /\ in_flight' = ""
    /\ k' = k + 1
    /\ pc' = "secondaries"
    /\ UNCHANGED <<raised, routerVars, requested_model, streaming, routed,
                   agent_name, routing_method, calls, primary_response,
                   response, metrics, streamVars,
                   httpVars,
                   serviceVars>>

\* lines 252-266 and orchestrator line 110: the responses are combined
Combine ==
    /\ pc = "secondaries"
    /\ k > Len(analysis.secondary_agents)
    /\ response' = _combine_multi_domain_responses(
                       query, analysis.primary_agent, primary_response,
                       responses, analysis)
    /\ pc' = "log"
    /\ UNCHANGED <<raised, routerVars, requested_model, streaming, routed,
                   agent_name, routing_method, calls, in_flight, multiVars,
                   metrics, streamVars,
                   httpVars,
                   serviceVars>>

\* lines 113-128: a single agent is called
CallAgent ==
    /\ pc = "route_decided"
    /\ ~MultiDomainDetected
    /\ in_flight' = agent_name
    /\ calls' = Append(calls, agent_name)
    /\ pc' = "await_agent"
    /\ UNCHANGED <<raised, routerVars, requested_model, streaming, routed,
                   agent_name, routing_method, multiVars, response, metrics,
                   streamVars,
                   httpVars,
                   serviceVars>>

\* line 128: the agent answers
AgentReturns ==
    /\ pc = "await_agent"
    /\ \E text \in AgentResponses(in_flight) : response' = text
    /\ in_flight' = ""
    /\ pc' = "log"
    /\ UNCHANGED <<raised, routerVars, requested_model, streaming, routed,
                   agent_name, routing_method, calls, multiVars, metrics,
                   streamVars,
                   httpVars,
                   serviceVars>>

\* AgentRaises that hands over the primary response obtained so far
AgentRaises_KeepsPartial ==
    /\ pc \in {"await_primary", "await_secondary", "await_agent"}
    /\ in_flight' = ""
    /\ raised' = TRUE
    /\ response' = primary_response
    /\ pc' = "failed"
    /\ UNCHANGED <<routerVars, requested_model, streaming, routed, agent_name,
                   routing_method, calls, multiVars, metrics, streamVars,
                   httpVars,
                   serviceVars>>

\* an awaited agent call raises: nothing in route_multi_domain_query,
\* process_query or process_query_stream catches it
AgentRaises ==
    /\ pc \in {"await_primary", "await_secondary", "await_agent"}
    /\ in_flight' = ""
    /\ raised' = TRUE
    /\ pc' = "failed"
    /\ UNCHANGED <<routerVars, requested_model, streaming, routed, agent_name,
                   routing_method, calls, multiVars, response, metrics,
                   streamVars,
                   httpVars,
                   serviceVars>>

\* LogInteraction that returns without recording the interaction
LogInteraction_Skips ==
    /\ pc = "log"
    /\ pc' = IF streaming THEN "split" ELSE "done"
    /\ UNCHANGED <<raised, routerVars, requested_model, streaming, routed,
                   agent_name, routing_method, calls, in_flight, multiVars,
                   response, metrics, streamVars, httpVars,
                   serviceVars>>

\* lines 130-138: the interaction is recorded and process_query returns
LogInteraction ==
    /\ pc = "log"
    /\ metrics' = Append(metrics,
                         [agent_name |-> agent_name, status |-> "success"])
    /\ pc' = IF streaming THEN "split" ELSE "done"
    /\ UNCHANGED <<raised, routerVars, requested_model, streaming, routed,
                   agent_name, routing_method, calls, in_flight, multiVars,
                   response, streamVars,
                   httpVars,
                   serviceVars>>

\* process_query_stream lines 148-152
SplitResponse ==
    /\ pc = "split"
    /\ words' = Split(response)
    /\ i' = 0
    /\ pc' = "stream"
    /\ UNCHANGED <<raised, routerVars, requested_model, streaming, routed,
                   agent_name, routing_method, calls, in_flight, multiVars,
                   response, metrics, chunks, httpVars,
                   serviceVars>>

\* lines 155-157
Chunk(ws, n) ==
    LET last == IF n + chunk_size < Len(ws) THEN n + chunk_size ELSE Len(ws)
        joined == Join(SubSeq(ws, n + 1, last), " ")
    IN  IF n + chunk_size < Len(ws) THEN joined \o " " ELSE joined

\* YieldChunk whose next chunk starts at the last word of this one
YieldChunk_Overlaps ==
    /\ pc = "stream"
    /\ i < Len(words)
    /\ chunks' = Append(chunks, Chunk(words, i))
    /\ events' = Append(events, ContentChunk(Chunk(words, i)))
    /\ i' = i + chunk_size - 1
    /\ UNCHANGED <<pc, raised, routerVars, requested_model, streaming, routed,
                   agent_name, routing_method, calls, in_flight, multiVars,
                   response, metrics, words, messages, status, choices,
                   abandoned,
                   serviceVars>>

\* lines 154-163: one turn of the loop yields a chunk, which
\* stream_chat_response (routes.py lines 115-133) yields as a content chunk
YieldChunk ==
    /\ pc = "stream"
    /\ i < Len(words)
    /\ chunks' = Append(chunks, Chunk(words, i))
    /\ events' = Append(events, ContentChunk(Chunk(words, i)))
    /\ i' = i + chunk_size
    /\ UNCHANGED <<pc, raised, routerVars, requested_model, streaming, routed,
                   agent_name, routing_method, calls, in_flight, multiVars,
                   response, metrics, words, messages, status, choices,
                   abandoned,
                   serviceVars>>

\* line 154: the loop ends, and the generator with it
EndStream ==
    /\ pc = "stream"
    /\ i >= Len(words)
    /\ pc' = "done"
    /\ UNCHANGED <<raised, routerVars, dispatchVars,
                   serviceVars>>

\* routes.py lines 82-98: process_query returned, the completion is sent
Respond ==
    /\ pc = "done"
    /\ ~streaming
    /\ status' = 200
    /\ choices' = <<Choice(response)>>
    /\ pc' = "responded"
    /\ UNCHANGED <<raised, routerVars, requested_model, streaming, routed,
                   agent_name, routing_method, calls, in_flight, multiVars,
                   response, metrics, streamVars, messages, events, abandoned,
                   serviceVars>>

\* routes.py lines 100-102: process_query raised
RespondError ==
    /\ pc = "failed"
    /\ ~streaming
    /\ status' = 500
    /\ pc' = "responded"
    /\ UNCHANGED <<raised, routerVars, requested_model, streaming, routed,
                   agent_name, routing_method, calls, in_flight, multiVars,
                   response, metrics, streamVars, messages, choices, events,
                   abandoned,
                   serviceVars>>

\* routes.py lines 135-149: process_query_stream is exhausted
SendFinal ==
    /\ pc = "done"
    /\ streaming
    /\ events' = events \o <<FinalChunk, DoneSentinel>>
    /\ pc' = "closed"
    /\ UNCHANGED <<raised, routerVars, requested_model, streaming, routed,
                   agent_name, routing_method, calls, in_flight, multiVars,
                   response, metrics, streamVars, messages, status, choices,
                   abandoned,
                   serviceVars>>

\* SendError that ends the stream as if nothing had failed
SendError_Silent ==
    /\ pc = "failed"
    /\ streaming
    /\ events' = events \o <<FinalChunk, DoneSentinel>>
    /\ pc' = "closed"
    /\ UNCHANGED <<raised, routerVars, requested_model, streaming, routed,
                   agent_name, routing_method, calls, in_flight, multiVars,
                   response, metrics, streamVars, messages, status, choices,
                   abandoned,
                   serviceVars>>

\* routes.py lines 151-165: process_query_stream raised
SendError ==
    /\ pc = "failed"
    /\ streaming
    /\ events' = events \o <<ErrorChunk, DoneSentinel>>
    /\ pc' = "closed"
    /\ UNCHANGED <<raised, routerVars, requested_model, streaming, routed,
                   agent_name, routing_method, calls, in_flight, multiVars,
                   response, metrics, streamVars, messages, status, choices,
                   abandoned,
                   serviceVars>>

\* the caller abandons the stream while process_query_stream is between two
\* chunks: the generators are cancelled at the point they are suspended at
Abandon ==
    /\ pc = "stream"
    /\ abandoned' = TRUE
    /\ pc' = "cancelled"
    /\ UNCHANGED <<raised, routerVars, requested_model, streaming, routed,
                   agent_name, routing_method, calls, in_flight, multiVars,
                   response, metrics, streamVars, messages, status, choices,
                   events,
                   serviceVars>>

\* Cancelled in which the "except Exception" clause of routes.py line 151
\* handles the cancellation as it handles an exception
Cancelled_Caught ==
    /\ pc = "cancelled"
    /\ events' = events \o <<ErrorChunk, DoneSentinel>>
    /\ pc' = "closed"
    /\ UNCHANGED <<raised, routerVars, requested_model, streaming, routed,
                   agent_name, routing_method, calls, in_flight, multiVars,
                   response, metrics, streamVars, messages, status, choices,
                   abandoned,
                   serviceVars>>

\* the cancellation (asyncio.CancelledError, GeneratorExit: neither is an
\* Exception) passes the loop of process_query_stream and the
\* "except Exception" clause of routes.py line 151: both generators end
Cancelled ==
    /\ pc = "cancelled"
    /\ pc' = "closed"
    /\ UNCHANGED <<raised, routerVars, dispatchVars,
                   serviceVars>>

Next ==
    \/ RejectEmpty
    \/ AcceptRequest
    \/ Respond
    \/ RespondError
    \/ SendFinal
    \/ SendError
    \/ Abandon
    \/ Cancelled
    \/ ResolveExplicit
    \/ ResolveIntelligent
    \/ AnalyzeDisabled
    \/ CallModel
    \/ ModelReturnsWith(DispatchOutcomes)
    \/ ReceiveAnalysis
    \/ CallPrimary
    \/ PrimaryReturns
    \/ NextSecondary
    \/ SecondaryReturns
    \/ Combine
    \/ CallAgent
    \/ AgentReturns
    \/ AgentRaises
    \/ LogInteraction
    \/ SplitResponse
    \/ YieldChunk
    \/ EndStream

Spec == Init /\ [][Next]_vars

(***************************************************************************)
(* Properties of the Keyword Classifier (SpecKeyword).                     *)
(***************************************************************************)

\* C8: the classifier's primary agent and confidence are a function of the
\* two scores only: finance_score > code_score gives finance with
\* min(0.8, 0.4 + 0.1 * finance_score), code_score > finance_score gives code
\* with min(0.8, 0.4 + 0.1 * code_score), a tie (both zero included) gives
\* finance with 0.3; the confidence is one of 0.3, 0.5, 0.6, 0.7, 0.8.
C8_KeywordPrimaryAndConfidence ==
    pc = "classified" =>
        LET fs == finance_score(query)
            cs == code_score(query)
        IN  /\ fs > cs =>
                /\ analysis.primary_agent = "finance"
                /\ analysis.confidence = Min(800, 400 + 100 * fs)
            /\ cs > fs =>
                /\ analysis.primary_agent = "code"
                /\ analysis.confidence = Min(800, 400 + 100 * cs)
            /\ fs = cs =>
                /\ analysis.primary_agent = "finance"
                /\ analysis.confidence = 300
            /\ analysis.confidence \in {300, 500, 600, 700, 800}

\* a query matching five finance keywords and no code keyword is classified:
\* the cap of the confidence applies
C8_Witness ==
    /\ pc = "classified"
    /\ finance_score(query) = 5
    /\ code_score(query) = 0
    /\ analysis.primary_agent = "finance"
    /\ analysis.confidence = 800

\* C9: the classifier sets is_multi_domain = (finance_score > 0 and
\* code_score > 0); when it is true secondary_agents is exactly the list of
\* the one agent that is not primary, when it is false the list is empty.
C9_KeywordMultiDomain ==
    pc = "classified" =>
        LET fs == finance_score(query)
            cs == code_score(query)
            other == IF analysis.primary_agent = "finance" THEN "code"
                     ELSE "finance"
        IN  /\ analysis.is_multi_domain = (fs > 0 /\ cs > 0)
            /\ analysis.is_multi_domain => analysis.secondary_agents = <<other>>
            /\ ~analysis.is_multi_domain => analysis.secondary_agents = <<>>

\* a query matching keywords of both lists, more of the code list, is
\* classified
C9_Witness ==
    /\ pc = "classified"
    /\ finance_score(query) > 0
    /\ code_score(query) > finance_score(query)
    /\ analysis.is_multi_domain
    /\ analysis.secondary_agents = <<"finance">>

(***************************************************************************)
(* Properties of the validation step (SpecValidate).                       *)
(***************************************************************************)
\* the reply validated, and the decision the validation returned
reply == llm.reply
Validated == pc = "validated" /\ ~raised

NoDuplicates(s) == \A m, n \in 1..Len(s) : s[m] = s[n] => m = n

\* C4: for every parsed reply the validated secondary_agents holds only
\* registered agent identifiers, never the decision's primary_agent, and no
\* identifier more than once.
C4_SecondaryValidNoPrimaryNoDuplicates ==
    Validated =>
        /\ \A n \in 1..Len(analysis.secondary_agents) :
              /\ analysis.secondary_agents[n] \in RegisteredAgents
              /\ analysis.secondary_agents[n] # analysis.primary_agent
        /\ NoDuplicates(analysis.secondary_agents)

\* C6: for every numeric confidence of a parsed reply the validated
\* confidence lies in [0, 1]; when primary_agent is valid, a value above 1
\* becomes 1, a value below 0 becomes 0, a value inside the range is
\* unchanged and a missing confidence becomes 0.5.
C6_ConfidenceClamped ==
    Validated =>
        /\ analysis.confidence >= 0
        /\ analysis.confidence <= 1000
        /\ Get(reply, "primary_agent", "finance") \in RegisteredAgents =>
              /\ "confidence" \notin reply.keys => analysis.confidence = 500
              /\ "confidence" \in reply.keys =>
                    /\ reply.confidence > 1000 => analysis.confidence = 1000
                    /\ reply.confidence < 0 => analysis.confidence = 0
                    /\ reply.confidence \in 0..1000 =>
                          analysis.confidence = reply.confidence

\* a reply with confidence 5.0 and a valid primary_agent was validated
C6_Witness ==
    /\ Validated
    /\ "confidence" \in reply.keys
    /\ reply.confidence = 5000
    /\ "primary_agent" \in reply.keys
    /\ reply.primary_agent = "code"
    /\ analysis.confidence = 1000

ViolatesDecisionSchema(r) ==
    \/ ~r.is_object
    \/ "primary_agent" \in r.keys /\ r.primary_agent \notin {"finance", "code"}
    \/ "confidence" \in r.keys
          /\ (~r.conf_is_number \/ r.confidence < 0 \/ r.confidence > 1000)
    \/ "secondary_agents" \in r.keys
          /\ (~r.sec_is_list
                \/ \E n \in 1..Len(r.secondary_agents) :
                      r.secondary_agents[n] \notin {"finance", "code"})
    \/ "query_type" \in r.keys
          /\ r.query_type \notin {"simple", "complex", "multi_step"}

\* the replies the validation step cannot process: not a JSON object, a
\* confidence that is not a number, a secondary_agents that is not a list
Unprocessable(r) ==
    \/ ~r.is_object
    \/ "confidence" \in r.keys /\ ~r.conf_is_number
    \/ "secondary_agents" \in r.keys /\ ~r.sec_is_list

C3_PrimaryRegistered ==
    pc = "returned" => analysis.primary_agent \in RegisteredAgents

\* the model named the unregistered agent legal and analyze_query returned
\* the validated decision
C3_Witness ==
    /\ pc = "returned"
    /\ llm.kind = "json"
    /\ ~Unprocessable(llm.reply)
    /\ "primary_agent" \in llm.reply.keys
    /\ llm.reply.primary_agent = "legal"
    /\ analysis.primary_agent = "finance"

\* C5: in every decision analyze_query returns, is_multi_domain is true only
\* if secondary_agents holds at least one valid agent identifier.
C5_MultiDomainOnlyWithSecondary ==
    pc = "returned" =>
        (analysis.is_multi_domain =>
            \E n \in 1..Len(analysis.secondary_agents) :
                analysis.secondary_agents[n] \in RegisteredAgents)

(***************************************************************************)
(* Properties of the orchestrator (Spec).                                  *)
(***************************************************************************)
ExplicitRequest == requested_model \in {"finance-agent", "code-agent"}

NamedAgent == IF requested_model = "finance-agent" THEN "finance" ELSE "code"

\* the agent call of a single-agent dispatch has been made
AgentCalled == pc \in {"await_agent", "log", "split", "stream", "done", "failed"}

\* C2: in every dispatch, streamed or not, whose requested model is
\* finance-agent or code-agent, analyze_query is invoked zero times (so no
\* external model call is made and no decision is produced), and exactly the
\* named agent is invoked, exactly once.
C2_ExplicitBypassesRouter ==
    ExplicitRequest =>
        /\ \A n \in 1..Len(calls) : calls[n] # "analyze_query"
        /\ model_calls = 0
        /\ analysis = NoAnalysis
        /\ calls \in {<<>>, <<NamedAgent>>}
        /\ AgentCalled => calls = <<NamedAgent>>

\* a streamed dispatch to code-agent has ended
C2_Witness ==
    /\ requested_model = "code-agent"
    /\ streaming
    /\ pc = "done"
    /\ calls = <<"code">>
    /\ metrics # <<>>

\* the combiner has run in this dispatch
Combined == MultiDomainDetected /\ pc \in {"log", "split", "stream", "done"}

\* C10: combining with an empty sequence of secondary responses returns the
\* primary response unchanged, so that a multi-domain dispatch whose decision
\* has no secondary agents returns exactly the primary agent's response.
C10_CombinerIdentity ==
    Combined =>
        /\ responses = <<>> => response = primary_response
        /\ analysis.secondary_agents = <<>> => response = primary_response

\* a multi-domain dispatch whose decision has no secondary agents has ended
\* and returned the primary agent's answer
C10_Witness ==
    /\ Combined
    /\ pc = "done"
    /\ analysis.secondary_agents = <<>>
    /\ responses = <<>>
    /\ primary_response = "def f():\n    return 1"
    /\ response = primary_response

\* process_query has returned to its caller
Returned ==
    /\ ~raised
    /\ pc \in {"split", "stream", "done", "responded", "closed", "cancelled"}

\* the dispatch was routed by a decision, which is multi-domain or not
RoutedMultiDomain == routed /\ analysis.is_multi_domain
RoutedSingleDomain == routed /\ ~analysis.is_multi_domain

RECURSIVE SectionsInDecisionOrder(_)
\* the sections of the secondary agents from the n-th of the decision on,
\* each with the n-th response collected
SectionsInDecisionOrder(n) ==
    IF n > Len(analysis.secondary_agents) THEN ""
    ELSE "## "
            \o (IF analysis.secondary_agents[n] = "finance"
                THEN "Financial Considerations"
                ELSE "Technical Considerations")
            \o " (Additional Context)\n\n"
            \o responses[n].response \o "\n\n"
            \o SectionsInDecisionOrder(n + 1)

\* C11: the combined document of a multi-domain dispatch holds the primary
\* section first, then one section per secondary response in the order of the
\* decision's secondary_agents, then the note that lists the primary id and
\* the secondary ids in that same order.
C11_CombinedDocumentOrder ==
    (RoutedMultiDomain /\ Returned /\ responses # <<>>) =>
        /\ Len(responses) = Len(analysis.secondary_agents)
        /\ \A n \in 1..Len(responses) :
              responses[n].agent = analysis.secondary_agents[n]
        /\ response =
              "**Multi-Domain Analysis for: " \o query \o "**\n\n"
                \o "## " \o PrimaryTitle(analysis.primary_agent)
                \o " (Primary Focus)\n\n" \o primary_response \o "\n\n"
                \o SectionsInDecisionOrder(1)
                \o "---\n*Note: This query spans multiple domains ("
                \o analysis.primary_agent \o " + "
                \o Join(analysis.secondary_agents, ", ") \o "). "
                \o "The above analysis covers both technical and financial aspects to provide a comprehensive answer.*"

\* a document was combined from two secondary responses that differ
C11_Witness ==
    /\ RoutedMultiDomain
    /\ Returned
    /\ Len(responses) = 2
    /\ responses[1].response = ""
    /\ responses[2].response # ""
    /\ response # primary_response

\* C12: in an intelligently routed dispatch whose decision is not
\* multi-domain, at most one agent is called, the primary agent, no secondary
\* agent is called whatever secondary_agents holds, the combiner is not used,
\* and once the dispatch has returned that one call was made and the response
\* is the agent's.
C12_SingleDomainOneAgent ==
    RoutedSingleDomain =>
        /\ calls \in {<<"analyze_query">>,
                      <<"analyze_query", analysis.primary_agent>>}
        /\ responses = <<>> /\ primary_response = "" /\ k = 0
        /\ Returned =>
              /\ calls = <<"analyze_query", analysis.primary_agent>>
              /\ response \in AgentResponses(analysis.primary_agent)

\* a decision that is not multi-domain and names a secondary agent was
\* answered by the primary agent alone
C12_Witness ==
    /\ RoutedSingleDomain
    /\ analysis.secondary_agents # <<>>
    /\ pc = "responded"
    /\ calls = <<"analyze_query", analysis.primary_agent>>
    /\ choices = <<Choice(response)>>
    /\ response # ""

\* analyze_query, the primary agent, then the secondary agents in order
ExpectedCalls ==
    <<"analyze_query", analysis.primary_agent>> \o analysis.secondary_agents

\* C13: in an intelligently routed dispatch whose decision is multi-domain,
\* the agents are called in the order primary, then secondary_agents; once
\* the dispatch has returned, the primary agent and every secondary agent
\* have been called, the secondary responses are held in secondary_agents
\* order, and the response is the combiner's output for them.
C13_MultiDomainCallsAll ==
    RoutedMultiDomain =>
        /\ Len(calls) <= Len(ExpectedCalls)
        /\ calls = SubSeq(ExpectedCalls, 1, Len(calls))
        /\ Returned =>
              /\ calls = ExpectedCalls
              /\ Len(responses) = Len(analysis.secondary_agents)
              /\ \A n \in 1..Len(responses) :
                    responses[n].agent = analysis.secondary_agents[n]
              /\ response = _combine_multi_domain_responses(
                                query, analysis.primary_agent,
                                primary_response, responses, analysis)

\* a multi-domain dispatch over two secondary agents has returned
C13_Witness ==
    /\ RoutedMultiDomain
    /\ pc = "done"
    /\ Len(analysis.secondary_agents) = 2
    /\ calls = ExpectedCalls
    /\ Len(responses) = 2

\* process_query_stream has yielded all its chunks
StreamExhausted ==
    streaming /\ ~raised /\ ~abandoned /\ pc \in {"done", "closed"}

\* C14: the chunks process_query_stream yields, concatenated in order, give
\* exactly the text process_query returns for the same query and context,
\* whatever spaces and newlines that text holds.
C14_StreamConcatenationIsResponse ==
    StreamExhausted => Join(chunks, "") = response

\* the words of the response, and the chunks of the stream that carry content
WordCount == Len(Split(response))
ContentChunks == {n \in 1..Len(events) : events[n].finish_reason = "none"
                                            /\ events[n].has_content}

\* C15: a streamed response of N words is sent as ceil(N/5) content chunks,
\* of exactly 5 words each but for the last, which holds from 1 to 5, then
\* the final chunk and exactly one [DONE] sentinel; nothing is ever sent
\* after a [DONE] sentinel.
C15_ChunkCountAndSentinel ==
    /\ \A n \in 1..Len(events) :
          events[n] = DoneSentinel => n = Len(events)
    /\ (streaming /\ ~raised /\ ~abandoned /\ pc = "closed") =>
          LET count == (WordCount + chunk_size - 1) \div chunk_size
          IN  /\ Len(events) = count + 2
              /\ ContentChunks = 1..count
              /\ \A n \in 1..count :
                    LET held == Len(Split(events[n].content))
                    IN  IF n < count THEN held = chunk_size
                        ELSE held >= 1 /\ held <= chunk_size
              /\ events[count + 1] = FinalChunk
              /\ events[count + 2] = DoneSentinel

\* a response of 7 words was streamed as two content chunks and closed
C15_Witness ==
    /\ streaming /\ ~raised /\ ~abandoned /\ pc = "closed"
    /\ WordCount = 7
    /\ Len(events) = 4
    /\ events[4] = DoneSentinel
    /\ Len(Split(events[2].content)) = 2

\* a call of process_query has ended, by returning or by raising
DispatchEnded ==
    /\ routing_method # ""
    /\ \/ Returned
       \/ raised /\ pc \in {"failed", "responded", "closed"}

\* C16: every call of process_query that has ended, by a success or by an
\* agent failure, on either path, has recorded exactly one interaction
\* metric, with the resolved primary agent and the status of the call.
C16_OneMetricPerDispatch ==
    DispatchEnded =>
        /\ Len(metrics) = 1
        /\ metrics[1].agent_name = agent_name
        /\ metrics[1].status = IF raised THEN "failure" ELSE "success"

(***************************************************************************)
(* Properties of the chat completion endpoint (Spec).                      *)
(***************************************************************************)

\* C17: a request whose messages list is empty is answered with status 400,
\* not the status 500 of an agent failure, and no routing or agent call is
\* made for it.
C17_EmptyMessagesBadInput ==
    (messages = <<>> /\ pc = "responded") =>
        /\ status = 400
        /\ calls = <<>>
        /\ model_calls = 0

\* the request has been accepted and its dispatch path decided
PathDecided ==
    /\ messages # <<>>
    /\ pc \notin {"chat_completions", "process_query"}

\* C18: the model field alone decides the path: finance-agent and code-agent
\* are dispatched explicitly to the finance and the code agent; any other
\* value (bookai-general, an unknown name, the bare names finance and code,
\* the empty model) is routed by analyze_query, and an agent is called only
\* once the decision is there, the agent the decision names.
C18_PathByModelField ==
    PathDecided =>
        IF requested_model \in {"finance-agent", "code-agent"}
        THEN /\ routing_method = "explicit"
             /\ agent_name = NamedAgent
             /\ ~routed
        ELSE /\ calls # <<>> /\ calls[1] = "analyze_query"
             /\ routing_method \in {"", "intelligent"}
             /\ routing_method = "intelligent" =>
                   routed /\ agent_name = analysis.primary_agent
             /\ Len(calls) > 1 =>
                   /\ routing_method = "intelligent"
                   /\ calls[2] = analysis.primary_agent

\* a request for an unknown model was routed intelligently and answered
C18_Witness ==
    /\ requested_model = "legal-agent"
    /\ pc = "responded"
    /\ status = 200
    /\ routing_method = "intelligent"
    /\ calls = <<"analyze_query", analysis.primary_agent>>

\* C19: once the caller has abandoned a stream, nothing more is emitted (no
\* content chunk, no error chunk, no sentinel), nothing is raised, and no
\* router or agent call is made again.
C19_AbandonedStreamStops ==
    [][abandoned =>
          UNCHANGED <<events, chunks, calls, model_calls, metrics, raised>>]_vars

\* a stream of two chunks was abandoned after its first chunk, and has ended
C19_Witness ==
    /\ abandoned
    /\ pc = "closed"
    /\ Len(words) = 7
    /\ events = <<ContentChunk(Chunk(words, 0))>>
    /\ ~raised

\* C20: when an agent raises, no completion is returned: without streaming
\* the request ends with status 500 and no choice; with streaming no content
\* chunk is sent, and the stream is one chunk with finish_reason = error
\* followed by the [DONE] sentinel.
C20_AgentFailureIsError ==
    raised =>
        /\ choices = <<>>
        /\ chunks = <<>>
        /\ ~streaming => status # 200
        /\ (~streaming /\ pc = "responded") => status = 500
        /\ (streaming /\ pc = "closed") =>
              /\ events = <<ErrorChunk, DoneSentinel>>
              /\ events[1].finish_reason = "error"
        /\ (streaming /\ pc # "closed") => events = <<>>

\* a secondary agent raised in a streamed multi-domain dispatch, and the
\* stream ended with the error chunk and the sentinel
C20_Witness ==
    /\ raised
    /\ streaming
    /\ pc = "closed"
    /\ Len(calls) = 3
    /\ events = <<ErrorChunk, DoneSentinel>>

(***************************************************************************)
(* Further properties of analyze_query (SpecRouter) and of the Keyword     *)
(* Classifier (SpecKeyword).                                               *)
(***************************************************************************)
QueryTypes == {"simple", "complex", "multi_step"}

\* C22: every decision analyze_query returns has a query_type among simple,
\* complex and multi_step, whatever query_type the parsed reply carries (or
\* none), and on the keyword path.
C22_QueryTypeInEnumeration ==
    (pc = "returned" /\ ~raised) => analysis.query_type \in QueryTypes

\* the keywords of each list, as sets
FinanceKeywordSet == {finance_keywords[n] : n \in 1..Len(finance_keywords)}
CodeKeywordSet == {code_keywords[n] : n \in 1..Len(code_keywords)}

\* C23: no keyword is a member of both the finance list and the code list,
\* so that a query made of a single keyword never scores on both sides.
C23_KeywordListsDisjoint ==
    /\ FinanceKeywordSet \cap CodeKeywordSet = {}
    /\ (pc = "classified" /\ query \in FinanceKeywordSet \cup CodeKeywordSet)
          => ~(finance_score(query) > 0 /\ code_score(query) > 0)

\* C24: one analyze_query call makes at most one external model call; after
\* a call that raised or a reply that is not JSON it returns the Keyword
\* Classifier's decision with that single call made; a disabled router makes
\* no call.
C24_AtMostOneModelCall ==
    /\ model_calls <= 1
    /\ ~enabled => model_calls = 0
    /\ (pc = "returned" /\ enabled /\ llm.kind \in {"raises", "not_json"}) =>
          /\ model_calls = 1
          /\ analysis = _fallback_analysis(query)

\* the one model call raised, and the classifier's decision was returned
C24_Witness ==
    /\ pc = "returned"
    /\ enabled
    /\ llm.kind = "raises"
    /\ model_calls = 1
    /\ analysis = _fallback_analysis(query)
    /\ analysis.primary_agent = "code"

(***************************************************************************)
(* Properties of the Multi-Domain Combiner (SpecCombine).                  *)
(***************************************************************************)
\* the label of the primary section: that of code, that of finance, and the
\* agent id itself for any other agent
PrimaryLabelOrAgentId(agent) ==
    IF agent = "code" THEN "Technical Implementation"
    ELSE IF agent = "finance" THEN "Financial Analysis"
    ELSE agent

\* the head of a combined document whose primary section is labelled so
DocumentHead(label) ==
    "**Multi-Domain Analysis for: " \o query \o "**\n\n"
        \o "## " \o label \o " (Primary Focus)\n\n"

\* text starts with head
StartsWith(text, head) ==
    Len(text) >= Len(head) /\ SubSeq(text, 1, Len(head)) = head

AgentCallsMade == IF calls = <<>> THEN 0 ELSE Len(calls) - 1
AgentCallsReturned == (IF k >= 1 THEN 1 ELSE 0) + Len(responses)

\* C26: in a multi-domain dispatch the agents are called one at a time: at
\* most one agent call is in flight, the primary agent is called first and
\* has returned before a secondary agent is called, and the secondary agents
\* are called in secondary_agents order.
C26_AgentsCalledSequentially ==
    (RoutedMultiDomain /\ ~raised) =>
        /\ AgentCallsMade - AgentCallsReturned \in {0, 1}
        /\ AgentCallsMade - AgentCallsReturned = 1 <=> in_flight # ""
        /\ Len(calls) >= 2 => calls[2] = analysis.primary_agent
        /\ Len(calls) >= 3 => k >= 1
        /\ \A n \in 3..Len(calls) : calls[n] = analysis.secondary_agents[n - 2]

\* the second of two secondary agents is awaited, the primary agent and the
\* first secondary agent having answered
C26_Witness ==
    /\ RoutedMultiDomain
    /\ pc = "await_secondary"
    /\ Len(calls) = 4
    /\ Len(responses) = 1
    /\ primary_response # ""
    /\ in_flight = analysis.secondary_agents[2]

\* the calls one complete dispatch of this request makes
CallsOfDispatch ==
    IF ExplicitRequest THEN <<NamedAgent>>
    ELSE IF analysis.is_multi_domain THEN ExpectedCalls
    ELSE <<"analyze_query", analysis.primary_agent>>

\* C27: when process_query_stream has yielded a chunk, process_query has
\* returned and recorded its one interaction metric, and the calls made are
\* exactly those of the one dispatch, all of them ended: routing and agent
\* calls come before the first chunk, none between or after chunks.
C27_DispatchCompleteBeforeChunks ==
    chunks # <<>> =>
        /\ streaming
        /\ Len(metrics) = 1
        /\ calls = CallsOfDispatch
        /\ model_calls <= 1
        /\ in_flight = ""
        /\ pc \in {"stream", "done", "closed", "cancelled"}
        /\ words # <<>>

\* a routed multi-domain dispatch is streamed, two chunks yielded so far
C27_Witness ==
    /\ RoutedMultiDomain
    /\ pc = "stream"
    /\ Len(chunks) = 2
    /\ i < Len(words)
    /\ Len(calls) = 3
    /\ metrics # <<>>

\* C28: when an agent raises in a multi-domain dispatch, process_query
\* raises: no text is returned, streamed or sent as a completion, no
\* interaction is recorded, and the agent that raised is the last one
\* called, the agents after it in the order are not called.
C28_MultiDomainFailsAsAWhole ==
    (raised /\ RoutedMultiDomain) =>
        /\ pc \in {"failed", "responded", "closed"}
        /\ response = ""
        /\ choices = <<>>
        /\ chunks = <<>>
        /\ metrics = <<>>
        /\ in_flight = ""
        /\ Len(calls) = 1 + AgentCallsReturned + 1
        /\ calls = SubSeq(ExpectedCalls, 1, Len(calls))

\* the first of two secondary agents raised after the primary agent had
\* answered: the second one was not called, and the request failed
C28_Witness ==
    /\ raised
    /\ RoutedMultiDomain
    /\ pc = "responded"
    /\ status = 500
    /\ Len(analysis.secondary_agents) = 2
    /\ primary_response # ""
    /\ Len(calls) = 3

(***************************************************************************)
(* Properties of the services (SpecService).                               *)
(***************************************************************************)
\* the module-level orchestrator was constructed
Constructed == orchestrator \in {"Runner", "AgentOrchestrator"}

\* a /health request has met its end
HealthRequested == pc \in {"health_answered", "health_refused"}

C29_RouteNeverRaises ==
    pc = "route_answered" =>
        /\ ~raised
        /\ routing_response.target_model =
              IF routing_response.should_route THEN "AuthorGen"
              ELSE selected_model
        /\ IF orchestrator = "None" \/ run.kind = "raises"
           THEN /\ ~routing_response.should_route
                /\ routing_response.confidence = 0
           ELSE /\ routing_response.should_route <=>
                      Contains("ROUTE_TO_AUTHORGEN",
                               Upper(Join(run.parts, "")))
                /\ routing_response.confidence \in {800, 900}

\* a reply that spells the marker in lower and mixed case over two parts
\* was routed to AuthorGen
C29_Witness ==
    /\ pc = "route_answered"
    /\ run.kind = "events"
    /\ run.parts = <<"route_to_", "AuthorGen\n">>
    /\ selected_model = "gpt-4"
    /\ routing_response.should_route
    /\ routing_response.target_model = "AuthorGen"

=============================================================================
